---- MODULE Spec2Model ----
(***************************************************************************)
(* Model of pysisyphus/calculators/XTB.py: the XTB calculator adapter.     *)
(*                                                                         *)
(*   Spec      one adapter used by one caller: construction, the mode      *)
(*             operations, input staging and the GFNFF topology lifecycle  *)
(*   SpecCtl   prepare_input's control-file construction (pure)            *)
(*   SpecHess  parse_hessian (pure)                                        *)
(*   SpecConc  two prepare_input passes interleaved on one adapter         *)
(***************************************************************************)
EXTENDS Integers, Sequences, FiniteSets, TLC

\* ------------------------------------------------------------------ bounds
MaxPasses == 4         \* staging operations performed on one adapter
MaxOther == 1          \* run_opt, run_md and direct run_topo calls on it
MaxTopoUpdate == 2     \* largest refresh interval tried
MaxConcPasses == 3     \* staging operations when two callers share the adapter
MaxUserKeys == 2       \* keys a user section of xtb_options draws from
MaxTokens == 38        \* tokens in a hessian file

\* ------------------------------------------------------- python values
\* Optional integers are sets: None is {}, the integer n is {n}.
None == {}
Some(n) == {n}
Val(opt) == CHOOSE x \in opt : TRUE
\* Python truthiness of an optional integer (None and 0 are falsy).
Truthy(opt) == opt # None /\ Val(opt) # 0
\* Optional strings (paths, temperatures) use the string "None".
NoPath == "None"

Last(s) == s[Len(s)]
Ev(ev, arg, n) == [ev |-> ev, arg |-> arg, n |-> n]

\* ------------------------------------------------------ parse_energy
\* The main log xtb.out, by what the pattern "TOTAL ENERGY\s*([-\d\.]+) Eh"
\* finds in it: a number, nothing, or characters of [-\d\.] that are no number.
LogKinds == {"energy", "no_energy", "bad_number"}

\* XTB.parse_energy: the exception raised, or "" when the energy is returned.
parse_energy(log) ==
  CASE log = "no_energy" -> "TypeError"      \* re.search(...) is None
    [] log = "bad_number" -> "ValueError"    \* float("-.") and the like
    [] OTHER -> ""

\* ----------------------------------------------------- parse_hessian
\* A token of the hessian file is a float [f |-> n] or a word [w |-> s].
Float(n) == [f |-> n]
Word(s) == [w |-> s]
IsFloat(t) == "f" \in DOMAIN t

\* int(size ** 0.5): the floor of the square root (exact at these sizes).
coord_num(size) == CHOOSE k \in 0..size : k * k <= size /\ (k + 1) * (k + 1) > size

\* text.split()[1:]
drop_first_mut(tokens) == tokens
drop_first(tokens) == IF tokens = << >> THEN << >> ELSE Tail(tokens)

HessResult(kind, side, hessian, err) ==
  [kind |-> kind, side |-> side, hessian |-> hessian, err |-> err]

\* XTB.parse_hessian
parse_hessian(tokens, log) ==
  LET vals == drop_first(tokens)
      size == Len(vals)
      n == coord_num(size)
  IN IF \E i \in 1..size : ~IsFloat(vals[i])
       THEN HessResult("raised", 0, << >>, "ValueError: could not convert")
     ELSE IF n * n # size
       THEN HessResult("raised", 0, << >>, "ValueError: cannot reshape")
     ELSE IF parse_energy(log) # ""
       THEN HessResult("raised", 0, << >>, parse_energy(log))
     ELSE HessResult("results", n,
                     [r \in 1..n |-> [c \in 1..n |-> vals[(r - 1) * n + c].f]], "")

\* ---------------------------------------------------- format_xcontrol
\* Option values: booleans [b |-> TRUE], strings [s |-> "x"], integers [i |-> 1].
Bool(b) == [b |-> b]
Str(s) == [s |-> s]
Int_(i) == [i |-> i]

\* sorted(..., key=name): names in alphabetical order.
SectionOrder == <<"embedding", "md", "scc", "write">>
KeyOrder == <<"charges", "dump", "hmass", "input", "interface", "json", "nvt",
              "restart", "shake", "step", "time", "velo">>

RECURSIVE Sorted(_, _)
Sorted(order, names) ==
  IF order = << >> THEN << >>
  ELSE (IF Head(order) \in names THEN <<Head(order)>> ELSE << >>)
         \o Sorted(Tail(order), names)

\* isinstance(_val, bool): "true"/"false", anything else as it is.
render_val(v) == IF "b" \in DOMAIN v THEN Str(IF v.b THEN "true" ELSE "false") ELSE v

\* A line of the control file: its indentation and its text.
Line(indent, text) == [indent |-> indent, text |-> text]

RECURSIVE EntryLines(_, _)
EntryLines(entries, keys) ==
  IF keys = << >> THEN << >>
  ELSE <<Line(4, <<Head(keys), "=", render_val(entries[Head(keys)])>>)>>
         \o EntryLines(entries, Tail(keys))

RECURSIVE SectionLines(_, _)
SectionLines(options, sections) ==
  IF sections = << >> THEN << >>
  ELSE <<Line(0, <<"$", Head(sections)>>)>>
         \o EntryLines(options[Head(sections)],
                       Sorted(KeyOrder, DOMAIN options[Head(sections)]))
         \o <<Line(0, <<"$end">>)>>
         \o SectionLines(options, Tail(sections))

\* textwrap.dedent: the margin common to all lines is removed.
dedent(lines) ==
  IF lines = << >> THEN lines
  ELSE LET margin == CHOOSE m \in {lines[i].indent : i \in 1..Len(lines)} :
                       \A i \in 1..Len(lines) : m <= lines[i].indent
       IN [i \in 1..Len(lines) |-> Line(lines[i].indent - margin, lines[i].text)]

\* XTB.format_xcontrol
format_xcontrol(options) ==
  dedent(SectionLines(options, Sorted(SectionOrder, DOMAIN options)))

\* dict.update: a key of b replaces the whole value a has for it.
dict_update_mut(a, b) ==
  [k \in DOMAIN a \cup DOMAIN b |->
     IF k \in DOMAIN a /\ k \in DOMAIN b
       THEN [j \in DOMAIN a[k] \cup DOMAIN b[k] |->
               IF j \in DOMAIN a[k] THEN a[k][j] ELSE b[k][j]]
     ELSE IF k \in DOMAIN b THEN b[k] ELSE a[k]]
dict_update(a, b) ==
  [k \in DOMAIN a \cup DOMAIN b |-> IF k \in DOMAIN b THEN b[k] ELSE a[k]]

EmptyDict == [k \in {} |-> 0]
\* {name: value}
Dict1(k, v) == [x \in {k} |-> v]

\* prepare_input, lines 160-169: the control file it writes.
prepare_input_xcontrol(xtb_options, point_charges) ==
  LET x0 == Dict1("write", Dict1("json", Bool(TRUE)))
      x1 == IF point_charges
              THEN dict_update(x0, Dict1("embedding",
                     [k \in {"input", "interface"} |->
                        IF k = "input" THEN Str("pointcharges_inp.pc") ELSE Str("orca")]))
              ELSE x0
  IN format_xcontrol(dict_update(x1, xtb_options))

\* run_md, lines 306-321: the control file it writes.
run_md_xcontrol(xtb_options, velocities, t, dt, dump) ==
  LET md == [k \in {"hmass", "dump", "nvt", "restart", "time", "shake", "step", "velo"} |->
               CASE k = "hmass" -> Int_(1)
                 [] k = "dump" -> Int_(dump)
                 [] k = "nvt" -> Bool(FALSE)
                 [] k = "restart" -> Str(IF velocities THEN "true" ELSE "false")
                 [] k = "time" -> [q |-> <<t, 1000>>]
                 [] k = "shake" -> Int_(0)
                 [] k = "step" -> Int_(dt)
                 [] OTHER -> Bool(FALSE)]
  IN format_xcontrol(dict_update(Dict1("md", md), xtb_options))

\* The control file has key=text inside the section.
HasDirective(file, section, key, text) ==
  \E i, j \in 1..Len(file) :
    /\ i < j
    /\ file[i].text = <<"$", section>>
    /\ file[j].text = <<key, "=", Str(text)>>
    /\ \A m \in (i + 1)..(j - 1) : Len(file[m].text) = 3

\* -------------------------------------------- the pure functions' state
VARIABLES
  xtb_options,   \* self.xtb_options
  point_charges, \* prepare_input(point_charges=...): given or None
  xcontrol,      \* the control file last written
  xcontrol_by,   \* who wrote it: "", "prepare_input" or "run_md"
  tokens,        \* hessian file: text.split()
  hlog,          \* what xtb.out holds when the hessian is parsed
  hresult        \* what parse_hessian gave

pvars == <<xtb_options, point_charges, xcontrol, xcontrol_by, tokens, hlog,
           hresult>>

NotRun == HessResult("none", 0, << >>, "")

PIdle ==
  /\ xtb_options = EmptyDict
  /\ point_charges = FALSE
  /\ xcontrol = << >>
  /\ xcontrol_by = ""
  /\ tokens = << >>
  /\ hlog = "energy"
  /\ hresult = NotRun

\* ---------------------------------------------------------- the adapter
VARIABLES
  adapter,       \* "none" (not constructed), "ok", "failed" (__init__ raised)
  etemp,         \* self.etemp
  retry_etemp,   \* self.retry_etemp
  topo,          \* self.topo: path of the topology file in use
  topo_update,   \* self.topo_update: optional refresh interval
  topo_used,     \* self.topo_used
  xtbrestart,    \* self.xtbrestart
  files,         \* topology files on disk: path -> build that produced it
  builds,        \* number of topology builds so far
  passes,        \* prepare_input passes begun so far
  others,        \* run_opt, run_md and direct run_topo calls so far
  th,            \* the callers: where each one is in its operation, its locals
  incs,          \* executions of line 185 so far
  rebuilt_at,    \* values of topo_used at which a pass replaced the topology
  double,        \* the topology was replaced twice at one value of topo_used
  overlapped     \* an operation began while another one was under way

avars == <<adapter, etemp, retry_etemp, topo, topo_update, topo_used,
           xtbrestart, files, builds, passes, others, th, incs, rebuilt_at,
           double, overlapped>>

vars == <<avars, pvars>>

EtempVals == {"None", "300"}
GfnVals == {"2", "ff", "3"}
UserTopo == "user_topo"
\* Names make_fn can hand out for a rebuilt topology.
Targets == {"calc_a.gfnff_topo", "calc_b.gfnff_topo"}
TopoPaths == {UserTopo} \cup Targets
TopoUpdateVals == {None} \cup {Some(n) : n \in 0..MaxTopoUpdate}
NoFile == 0 - 1

\* valid_gfns of __init__
valid_gfns == {"0", "1", "2", "ff"}

\* The two assertions of __init__: TRUE when construction goes through.
init_ok_mut(et, ret, gfn) == gfn \in valid_gfns
init_ok(et, ret, gfn) ==
  /\ (et # "None" => ret = "None")
  /\ gfn \in valid_gfns

\* What the external program leaves behind for one run.
DefaultEnv ==
  [started |-> TRUE,         \* the subprocess could be started
   topo_made |-> TRUE,       \* `xtb topo` left a gfnff_topo file
   target |-> "calc_a.gfnff_topo",   \* make_fn("gfnff_topo")
   grad_ok |-> TRUE,         \* parse_turbo_gradient finds a gradient
   log |-> "energy",         \* what xtb.out holds
   xtbopt |-> TRUE,          \* xtbopt.xyz exists
   optlog |-> TRUE,          \* xtbopt.log exists
   xtbmdok |-> TRUE,         \* xtbmdok exists
   restart_kept |-> FALSE,   \* an xtbrestart file was left and is kept
   calc_number |-> 0,        \* self.calc_number, kept by the base calculator
   hessian |-> <<Word("$hessian"), Float(1), Float(2), Float(3), Float(4)>>]

\* A caller that is in no operation.
Idle ==
  [pc |-> "idle", op |-> "none", calc |-> "none", ret |-> "end",
   ncoords |-> 0, velocities |-> None, keep_log |-> FALSE,
   events |-> << >>,         \* what the operation did so far
   result |-> "none",        \* what it returned
   used0 |-> 0,              \* topo_used when its prepare_input began
   tmp |-> 0,                \* topo_used as last read

   results_topo |-> NoPath,  \* results["topo"] of its rebuild
   \* what parse_opt met: xtbopt.xyz and self.calc_number
   found |-> [parsed |-> FALSE, xtbopt |-> FALSE, calc_number |-> 0]]

Resting(t) == th[t].pc \in {"idle", "returned", "raised"}
At(t, pc) == th[t].pc = pc

AInit(callers) ==
  /\ adapter = "none"
  /\ etemp = "None"
  /\ retry_etemp = "None"
  /\ topo = NoPath
  /\ topo_update = None
  /\ topo_used = 0
  /\ xtbrestart = NoPath
  /\ files = [p \in TopoPaths |-> IF p = UserTopo THEN 0 ELSE NoFile]
  /\ builds = 0
  /\ passes = 0
  /\ others = 0
  /\ th = [t \in callers |-> Idle]
  /\ incs = 0
  /\ rebuilt_at = {}
  /\ double = FALSE
  /\ overlapped = FALSE

\* XTB.__init__
Construct ==
  /\ adapter = "none"
  /\ \E et \in EtempVals, ret \in EtempVals, gfn \in GfnVals,
        tp \in {NoPath, UserTopo}, tu \in TopoUpdateVals :
       /\ etemp' = et
       /\ retry_etemp' = ret
       /\ IF init_ok(et, ret, gfn)
            THEN /\ adapter' = "ok"
                 /\ topo' = tp
                 /\ topo_update' = tu
            ELSE /\ adapter' = "failed"
                 /\ UNCHANGED <<topo, topo_update>>
  /\ topo_used' = 0
  /\ xtbrestart' = NoPath
  /\ UNCHANGED <<files, builds, passes, others, th, incs, rebuilt_at, double,
                 overlapped, pvars>>

\* ------------------------------------------------ the operations
\* Where an operation starts: with prepare_input, with run_md's own staging,
\* or straight with prepare_coords.
entry_mut(op) ==
  IF op \in {"get_forces", "get_energy", "run_calculation"}
    THEN "prepare_input"
  ELSE IF op = "run_md" THEN "md_stage" ELSE "prepare_coords"
entry(op) ==
  IF op \in {"get_forces", "get_energy", "run_calculation", "get_hessian"}
    THEN "prepare_input"
  ELSE IF op = "run_md" THEN "md_stage" ELSE "prepare_coords"

\* The mode tag an operation hands to the runner ("calc": ...).
mode(op) ==
  CASE op = "get_hessian" -> "hess"
    [] op = "run_opt" -> "opt"
    [] op = "run_md" -> "md"
    [] op = "run_topo" -> "topo"
    [] OTHER -> "grad"

\* A caller calls an operation of the adapter.
Call(t, op, ncoords, velocities, keep_log) ==
  /\ adapter = "ok"
  /\ Resting(t)
  /\ th' = [th EXCEPT ![t] =
              [Idle EXCEPT !.pc = entry(op), !.op = op, !.calc = mode(op),
                           !.ncoords = ncoords, !.velocities = velocities,
                           !.keep_log = keep_log]]
  /\ overlapped' = (overlapped \/ \E u \in DOMAIN th : u # t /\ ~Resting(u))
  /\ UNCHANGED <<adapter, etemp, retry_etemp, topo, topo_update, topo_used,
                 xtbrestart, files, builds, passes, incs, rebuilt_at, double,
                 pvars>>

Staging == passes < MaxPasses /\ UNCHANGED others
Other == others < MaxOther /\ others' = others + 1

GetForces ==
  \E t \in DOMAIN th, n \in {5, 6} : Staging /\ Call(t, "get_forces", n, None, FALSE)

GetEnergy ==
  \E t \in DOMAIN th, n \in {5, 6} : Staging /\ Call(t, "get_energy", n, None, FALSE)

RunCalculation ==
  \E t \in DOMAIN th, n \in {5, 6} : Staging /\ Call(t, "run_calculation", n, None, FALSE)

GetHessian ==
  \E t \in DOMAIN th, n \in {5, 6} : Staging /\ Call(t, "get_hessian", n, None, FALSE)

RunOpt ==
  \E t \in DOMAIN th, n \in {5, 6}, k \in BOOLEAN : Other /\ Call(t, "run_opt", n, None, k)

RunMd ==
  \E t \in DOMAIN th, n \in {5, 6}, v \in {None, Some(3), Some(6), Some(7)} :
    Other /\ Call(t, "run_md", n, v, FALSE)

RunTopo ==
  \E t \in DOMAIN th, n \in {5, 6} : Other /\ Call(t, "run_topo", n, None, FALSE)

\* A step of caller t that touches only its own locals.
Local(t, new) ==
  /\ th' = [th EXCEPT ![t] = new]
  /\ UNCHANGED <<adapter, etemp, retry_etemp, topo, topo_update, topo_used,
                 xtbrestart, files, builds, passes, others, incs, rebuilt_at,
                 double, overlapped, pvars>>

Logged(r, e) == [r EXCEPT !.events = Append(@, e)]

\* prepare_input, lines 158-171: the working directory and the control file.
PrepareInput ==
  \E t \in DOMAIN th :
    /\ At(t, "prepare_input")
    /\ th' = [th EXCEPT ![t] =
                [Logged(Logged(@, Ev("prepare_path", "", 0)),
                        Ev("write_xcontrol", "prepare_input", 0))
                   EXCEPT !.pc = "topo_check", !.used0 = topo_used]]
    /\ passes' = passes + 1
    /\ UNCHANGED <<adapter, etemp, retry_etemp, topo, topo_update, topo_used,
                   xtbrestart, files, builds, others, incs, rebuilt_at, double,
                   overlapped, pvars>>

\* prepare_input, lines 174-178
needs_topo_update(used, tu) == used > 0 /\ Truthy(tu) /\ used % Val(tu) = 0

\* prepare_input, lines 174-179: the refresh check; run_topo is entered.
TopoCheck ==
  \E t \in DOMAIN th :
    /\ At(t, "topo_check")
    /\ Local(t, IF needs_topo_update(topo_used, topo_update)
                  THEN [th[t] EXCEPT !.pc = "prepare_coords", !.calc = "topo",
                                     !.ret = "set_topo", !.tmp = topo_used]
                  ELSE [th[t] EXCEPT !.pc = "copy_topo"])

\* XTB.prepare_coords: coords.reshape((-1, 3)); then the command line.
PrepareCoords ==
  \E t \in DOMAIN th :
    /\ At(t, "prepare_coords")
    /\ Local(t, IF th[t].ncoords % 3 # 0
                  THEN [th[t] EXCEPT !.pc = "raised"]
                  ELSE [Logged(th[t], Ev("prepare_coords", th[t].calc, 0))
                          EXCEPT !.pc = "run"])

\* ------------------------------------------------------------ parsers
Parsed(outcome, result, log) == [outcome |-> outcome, result |-> result, log |-> log]
Raised == Parsed("raised", "none", << >>)

\* XTB.parse_gradient
parse_gradient(env) == IF env.grad_ok THEN Parsed("returned", "results", << >>) ELSE Raised

\* XTB.parse_opt
parse_opt_mut(env, keep_log) ==
  IF ~env.xtbopt THEN Parsed("raised", "none", <<Ev("log", "failed", env.calc_number)>>)
  ELSE IF parse_energy(env.log) # "" THEN Raised
  ELSE IF keep_log /\ ~env.optlog THEN Raised
  ELSE Parsed("returned", "OptResult", << >>)
parse_opt(env, keep_log) ==
  IF ~env.xtbopt THEN Parsed("returned", "None", <<Ev("log", "failed", env.calc_number)>>)
  ELSE IF parse_energy(env.log) # "" THEN Raised
  ELSE IF keep_log /\ ~env.optlog THEN Raised
  ELSE Parsed("returned", "OptResult", << >>)

\* XTB.parse_md
parse_md(env) == IF env.xtbmdok THEN Parsed("returned", "geoms", << >>) ELSE Raised

\* XTB.parse_topo: shutil.copy of the file the build left; {"topo": target}
parse_topo(env) == IF env.topo_made THEN Parsed("returned", env.target, << >>) ELSE Raised

\* self.parser_funcs
parser_funcs(calc, env, keep_log) ==
  CASE calc = "grad" -> parse_gradient(env)
    [] calc = "hess" -> IF parse_hessian(env.hessian, env.log).kind = "results"
                          THEN Parsed("returned", "results", << >>) ELSE Raised
    [] calc = "opt" -> parse_opt(env, keep_log)
    [] calc = "md" -> parse_md(env)
    [] calc = "topo" -> parse_topo(env)
    [] calc = "calc" -> IF parse_energy(env.log) = ""
                          THEN Parsed("returned", "energy", << >>) ELSE Raised
    [] OTHER -> Parsed("returned", "None", << >>)

\* What a run of the given mode can leave behind.
RunEnvs(calc) ==
  {DefaultEnv, [DefaultEnv EXCEPT !.started = FALSE],
   [DefaultEnv EXCEPT !.restart_kept = TRUE]}
  \cup
  CASE calc = "topo" -> {[DefaultEnv EXCEPT !.topo_made = FALSE],
                         [DefaultEnv EXCEPT !.target = "calc_b.gfnff_topo"]}
    [] calc = "grad" -> {[DefaultEnv EXCEPT !.grad_ok = FALSE]}
    [] calc = "hess" -> {[DefaultEnv EXCEPT !.log = l] : l \in LogKinds}
                        \cup {[DefaultEnv EXCEPT !.hessian = SubSeq(@, 1, 3)]}
    [] calc = "opt" -> {[DefaultEnv EXCEPT !.log = l] : l \in LogKinds}
                       \cup {[DefaultEnv EXCEPT !.xtbopt = FALSE, !.log = l,
                                                !.calc_number = n] :
                               l \in LogKinds, n \in {0, 12}}
                       \cup {[DefaultEnv EXCEPT !.optlog = FALSE]}
    [] OTHER -> {[DefaultEnv EXCEPT !.xtbmdok = FALSE]}

\* get_energy, line 222: del results["forces"]
result_of(op, parsed) ==
  IF op \in {"get_energy", "run_calculation"} THEN "energy" ELSE parsed

\* Calculator.run: the external runner, then the parser of the mode tag.
Run ==
  \E t \in DOMAIN th :
    /\ At(t, "run")
    /\ \E env \in RunEnvs(th[t].calc) :
         LET me == th[t]
             p == IF env.started THEN parser_funcs(me.calc, env, me.keep_log) ELSE Raised
             built == me.calc = "topo" /\ p.outcome = "returned"
             ran == [me EXCEPT !.events = Append(@, Ev("run", me.calc, 0)) \o p.log,
                               !.found = IF me.calc = "opt" /\ env.started
                                           THEN [parsed |-> TRUE,
                                                 xtbopt |-> env.xtbopt,
                                                 calc_number |-> env.calc_number]
                                           ELSE @]
         IN /\ th' = [th EXCEPT ![t] =
                        IF p.outcome = "raised" THEN [ran EXCEPT !.pc = "raised"]
                        ELSE IF me.ret = "set_topo"
                          THEN [ran EXCEPT !.pc = "set_topo", !.results_topo = p.result]
                        ELSE [ran EXCEPT !.pc = "returned",
                                         !.result = result_of(me.op, p.result)]]
            /\ files' = IF built THEN [files EXCEPT ![env.target] = builds + 1] ELSE files
            /\ builds' = IF built THEN builds + 1 ELSE builds
            /\ xtbrestart' = IF env.started /\ env.restart_kept THEN "xtbrestart"
                             ELSE xtbrestart
    /\ UNCHANGED <<adapter, etemp, retry_etemp, topo, topo_update, topo_used,
                   passes, others, incs, rebuilt_at, double, overlapped, pvars>>

\* prepare_input, line 180: the path stored after a rebuild
new_topo_mut(stored, built) == stored
new_topo(stored, built) == built

\* prepare_input, lines 180-181
SetTopo ==
  \E t \in DOMAIN th :
    /\ At(t, "set_topo")
    /\ topo' = new_topo(topo, th[t].results_topo)
    /\ th' = [th EXCEPT ![t] =
                [Logged(@, Ev("set_topo", topo', files[topo']))
                   EXCEPT !.pc = "copy_topo", !.calc = mode(th[t].op), !.ret = "end"]]
    /\ rebuilt_at' = rebuilt_at \cup {th[t].tmp}
    /\ double' = (double \/ th[t].tmp \in rebuilt_at)
    /\ UNCHANGED <<adapter, etemp, retry_etemp, topo_update, topo_used,
                   xtbrestart, files, builds, passes, others, incs, overlapped,
                   pvars>>

\* prepare_input, lines 182-184
CopyTopo ==
  \E t \in DOMAIN th :
    /\ At(t, "copy_topo")
    /\ Local(t, IF topo # NoPath
                  THEN [Logged(th[t], Ev("copy_topo", topo, files[topo]))
                          EXCEPT !.pc = "incr_load"]
                  ELSE [th[t] EXCEPT !.pc = "copy_restart"])

\* prepare_input, line 185: self.topo_used is loaded ...
IncrLoad ==
  \E t \in DOMAIN th :
    /\ At(t, "incr_load")
    /\ Local(t, [th[t] EXCEPT !.pc = "incr_store", !.tmp = topo_used])

topo_used_next_mut(loaded) == loaded
topo_used_next(loaded) == loaded + 1

\* ... and stored back, one larger.
IncrStore ==
  \E t \in DOMAIN th :
    /\ At(t, "incr_store")
    /\ topo_used' = topo_used_next(th[t].tmp)
    /\ incs' = incs + 1
    /\ th' = [th EXCEPT ![t] = [@ EXCEPT !.pc = "copy_restart"]]
    /\ UNCHANGED <<adapter, etemp, retry_etemp, topo, topo_update, xtbrestart,
                   files, builds, passes, others, rebuilt_at, double, overlapped,
                   pvars>>

\* prepare_input, lines 186-188, and the return to the operation.
CopyRestart ==
  \E t \in DOMAIN th :
    /\ At(t, "copy_restart")
    /\ Local(t, [Logged(IF xtbrestart # NoPath
                          THEN Logged(th[t], Ev("copy_restart", xtbrestart, 0))
                          ELSE th[t],
                        Ev("staged", "prepare_input", 0))
                   EXCEPT !.pc = "prepare_coords"])

\* run_md, lines 297-301: both arrays reshaped to (-1, 3) and compared.
shapes_match_mut(ncoords, nvel) == ncoords % 3 = 0 /\ nvel % 3 = 0
shapes_match(ncoords, nvel) ==
  ncoords % 3 = 0 /\ nvel % 3 = 0 /\ ncoords \div 3 = nvel \div 3

\* run_md, lines 294-323: its own working directory, restart and control file.
MdStage ==
  \E t \in DOMAIN th :
    /\ At(t, "md_stage")
    /\ LET me == Logged(th[t], Ev("prepare_path", "", 0))
           v == me.velocities
       IN Local(t, IF v # None /\ ~shapes_match(me.ncoords, Val(v))
                     THEN [me EXCEPT !.pc = "raised"]
                     ELSE [Logged(IF v # None
                                    THEN Logged(me, Ev("write_mdrestart", "", Val(v) \div 3))
                                    ELSE me,
                                  Ev("write_xcontrol", "run_md", 0))
                             EXCEPT !.pc = "prepare_coords"])

Init == AInit({1}) /\ PIdle

Next ==
  \/ Construct
  \/ GetForces
  \/ GetEnergy
  \/ RunCalculation
  \/ GetHessian
  \/ RunOpt
  \/ RunMd
  \/ RunTopo
  \/ PrepareInput
  \/ TopoCheck
  \/ PrepareCoords
  \/ Run
  \/ SetTopo
  \/ CopyTopo
  \/ IncrLoad
  \/ IncrStore
  \/ CopyRestart
  \/ MdStage

Spec == Init /\ [][Next]_vars

\* ---------------------------------------------- SpecCtl: the control file
UserSections == {"md", "write"}
UserKeyOrder == <<"json", "charges", "restart">>
UserKeys == {UserKeyOrder[i] : i \in 1..MaxUserKeys}
UserVals == {Bool(TRUE), Bool(FALSE), Str("true")}
UserEntries == UNION {[ks -> UserVals] : ks \in SUBSET UserKeys}
UserOptions == UNION {[ss -> UserEntries] : ss \in SUBSET UserSections}

CtlInit ==
  /\ AInit({1})
  /\ xtb_options \in UserOptions
  /\ point_charges \in BOOLEAN
  /\ xcontrol = << >>
  /\ xcontrol_by = ""
  /\ tokens = << >>
  /\ hlog = "energy"
  /\ hresult = NotRun

\* prepare_input, lines 160-171
WriteXcontrol ==
  /\ xcontrol' = prepare_input_xcontrol(xtb_options, point_charges)
  /\ xcontrol_by' = "prepare_input"
  /\ UNCHANGED <<avars, xtb_options, point_charges, tokens, hlog, hresult>>

\* run_md, lines 306-323
WriteMdXcontrol ==
  /\ \E velocities \in BOOLEAN :
       xcontrol' = run_md_xcontrol(xtb_options, velocities, 100, 1, 1)
  /\ xcontrol_by' = "run_md"
  /\ UNCHANGED <<avars, xtb_options, point_charges, tokens, hlog, hresult>>

CtlNext ==
  \/ WriteXcontrol
  \/ WriteMdXcontrol

SpecCtl == CtlInit /\ [][CtlNext]_vars

\* -------------------------------------------- SpecHess: parse_hessian
\* A hessian file of the given length: with or without the $hessian line,
\* with or without a closing word.
MkFile(len, header, closing) ==
  [i \in 1..len |->
     IF i = 1 /\ header THEN Word("$hessian")
     ELSE IF i = len /\ closing THEN Word("$end")
     ELSE Float(i)]

HessFiles ==
  {MkFile(len, header, closing) :
     len \in 0..MaxTokens, header \in BOOLEAN, closing \in BOOLEAN}

HessInit ==
  /\ AInit({1})
  /\ xtb_options = EmptyDict
  /\ point_charges = FALSE
  /\ xcontrol = << >>
  /\ xcontrol_by = ""
  /\ tokens \in HessFiles
  /\ hlog \in LogKinds
  /\ hresult = NotRun

ParseHessian ==
  /\ hresult = NotRun
  /\ hresult' = parse_hessian(tokens, hlog)
  /\ UNCHANGED <<avars, xtb_options, point_charges, xcontrol, xcontrol_by,
                 tokens, hlog>>

HessNext == ParseHessian

SpecHess == HessInit /\ [][HessNext]_vars

\* ------------------------------ SpecConc: two callers share one adapter
\* The adapter as __init__ leaves it, given a topology and a refresh interval.
ConcInit ==
  /\ adapter = "ok"
  /\ etemp = "None"
  /\ retry_etemp = "None"
  /\ topo = UserTopo
  /\ topo_update \in {Some(1), Some(2)}
  /\ topo_used = 0
  /\ xtbrestart = NoPath
  /\ files = [p \in TopoPaths |-> IF p = UserTopo THEN 0 ELSE NoFile]
  /\ builds = 0
  /\ passes = 0
  /\ others = 0
  /\ th = [t \in {1, 2} |-> Idle]
  /\ incs = 0
  /\ rebuilt_at = {}
  /\ double = FALSE
  /\ overlapped = FALSE
  /\ PIdle

ConcGetForces ==
  /\ passes < MaxConcPasses
  /\ \E t \in DOMAIN th : Staging /\ Call(t, "get_forces", 6, None, FALSE)

ConcNext ==
  \/ ConcGetForces
  \/ PrepareInput
  \/ TopoCheck
  \/ PrepareCoords
  \/ Run
  \/ SetTopo
  \/ CopyTopo
  \/ IncrLoad
  \/ IncrStore
  \/ CopyRestart

SpecConc == ConcInit /\ [][ConcNext]_vars

\* =============================================================== claims
HasEv(events, ev) == \E i \in 1..Len(events) : events[i].ev = ev
StagingOps == {"get_forces", "get_energy", "run_calculation", "get_hessian"}

\* C1 (as claimed): with a topology and a refresh interval N, the topology is
\* rebuilt during the N-th, 2N-th, ... staging pass and during no other one.
C1_RebuildOnNth ==
  \A t \in DOMAIN th :
    (HasEv(th[t].events, "staged") /\ topo # NoPath /\ Truthy(topo_update))
      => (HasEv(th[t].events, "set_topo") <=> passes % Val(topo_update) = 0)

\* C2 (as claimed): every mode operation stages its input with prepare_input
\* before it reaches the external runner.
C2_AllStaged ==
  \A t \in DOMAIN th : \A i \in 1..Len(th[t].events) :
    th[t].events[i].ev = "run"
      => \E j \in 1..(i - 1) : th[t].events[j].ev = "staged"

\* C2 (amended): get_forces and get_hessian (and get_energy, run_calculation
\* through get_forces) complete prepare_input before they invoke the runner
\* with their mode; run_opt, run_md and run_topo invoke it without any
\* prepare_input pass, and the rebuild inside a pass runs before the pass ends.
C2_StagedModes ==
  \A t \in DOMAIN th : \A i \in 1..Len(th[t].events) :
    LET e == th[t].events IN
    e[i].ev = "run" =>
      /\ e[i].arg \in {"grad", "hess"} =>
           /\ th[t].op \in StagingOps
           /\ e[i].arg = mode(th[t].op)
           /\ \E j \in 1..(i - 1) : e[j].ev = "staged"
           /\ \E j \in 1..(i - 1) : e[j] = Ev("write_xcontrol", "prepare_input", 0)
      /\ e[i].arg \in {"opt", "md"} =>
           /\ th[t].op \in {"run_opt", "run_md"}
           /\ ~HasEv(e, "staged")
           /\ \A j \in 1..Len(e) : e[j] # Ev("write_xcontrol", "prepare_input", 0)
      /\ e[i].arg = "topo" => \A j \in 1..(i - 1) : e[j].ev # "staged"
      /\ (th[t].op \in StagingOps /\ ~HasEv(e, "staged")) => e[i].arg = "topo"

\* C2 witness: a Hessian calculation went through staging and the runner.
C2_Witness ==
  /\ th[1].op = "get_hessian"
  /\ th[1].pc = "returned"
  /\ HasEv(th[1].events, "staged")
  /\ Last(th[1].events).ev = "run"

\* C5: a staging pass that returns leaves topo_used one larger when a topology
\* path is set and unchanged when none is; no step ever lowers or resets it.
C5_CounterSteps ==
  [][/\ topo_used' >= topo_used
     /\ \A t \in DOMAIN th :
          (th[t].pc = "copy_restart" /\ th'[t].pc = "prepare_coords")
            => topo_used' = th[t].used0 + (IF topo' # NoPath THEN 1 ELSE 0)]_vars

\* C5 witness: a pass that rebuilt the topology has returned, counter one up.
C5_Witness ==
  /\ HasEv(th[1].events, "staged")
  /\ HasEv(th[1].events, "set_topo")
  /\ topo_used = th[1].used0 + 1
  /\ th[1].used0 > 1

\* C6: when xtbopt.xyz is absent parse_opt logs "<calc_number> failed" and
\* returns None without raising; an OptResult comes only from an existing file.
C6_ParseOpt ==
  \A t \in DOMAIN th :
    /\ (th[t].found.parsed /\ ~th[t].found.xtbopt)
         => /\ th[t].pc = "returned"
            /\ th[t].result = "None"
            /\ Last(th[t].events) = Ev("log", "failed", th[t].found.calc_number)
    /\ th[t].result = "OptResult" => (th[t].found.parsed /\ th[t].found.xtbopt)

\* C6 witness: an optimisation whose xtbopt.xyz was missing returned None.
C6_Witness ==
  /\ th[1].op = "run_opt"
  /\ th[1].found.parsed
  /\ ~th[1].found.xtbopt
  /\ th[1].found.calc_number = 12
  /\ th[1].result = "None"

\* C7: construction with etemp and retry_etemp both set fails, so an adapter
\* in use never has both.
C7_EtempExclusive ==
  (etemp # "None" /\ retry_etemp # "None")
    => (adapter = "failed" /\ \A t \in DOMAIN th : th[t].pc = "idle")

\* C7 witness: a construction with both temperatures was attempted.
C7_Witness == adapter = "failed" /\ etemp = "300" /\ retry_etemp = "300"

\* C8: run_md with velocities whose size differs from that of the coordinates
\* fails before the external runner is invoked.
C8_NoRunOnMismatch ==
  \A t \in DOMAIN th :
    (th[t].op = "run_md" /\ th[t].velocities # None
       /\ Val(th[t].velocities) # th[t].ncoords)
      => /\ th[t].pc \in {"md_stage", "raised"}
         /\ ~HasEv(th[t].events, "run")

\* C8 witness: two atoms, velocities of one atom, and the call has raised.
C8_Witness ==
  /\ th[1].op = "run_md"
  /\ th[1].ncoords = 6
  /\ th[1].velocities = Some(3)
  /\ th[1].pc = "raised"

\* C9: a pass that rebuilds the topology copies the rebuilt file, the one at
\* the path the rebuild returned, into the working directory.
C9_CopiesRebuilt ==
  \A t \in DOMAIN th :
    LET e == th[t].events IN
    \A i \in 1..Len(e) :
      e[i].ev = "set_topo" =>
        /\ \A j \in 1..Len(e) :
             e[j].ev = "copy_topo"
               => j > i /\ e[j].arg = th[t].results_topo /\ e[j].n = builds
        /\ HasEv(e, "staged") => HasEv(e, "copy_topo")

\* C9 witness: the second rebuild of an adapter, copied in the same pass.
C9_Witness ==
  /\ HasEv(th[1].events, "set_topo")
  /\ HasEv(th[1].events, "copy_topo")
  /\ builds = 2
  /\ topo # UserTopo

\* C3 (as claimed): whatever xtb_options holds, the control file written by
\* prepare_input has json=true in its write section.
C3_AlwaysJson ==
  xcontrol_by = "prepare_input" => HasDirective(xcontrol, "write", "json", "true")

\* C3 (amended): the control file written by prepare_input has json=true in
\* its write section exactly when xtb_options has no write section of its own,
\* or has one that itself sets json to True or "true".
C3_JsonUnlessOverridden ==
  xcontrol_by = "prepare_input" =>
    (HasDirective(xcontrol, "write", "json", "true")
       <=> \/ "write" \notin DOMAIN xtb_options
           \/ /\ "json" \in DOMAIN xtb_options["write"]
              /\ xtb_options["write"]["json"] \in {Bool(TRUE), Str("true")})

\* C3 witness: user options without a write section, json=true written.
C3_Witness ==
  /\ xcontrol_by = "prepare_input"
  /\ DOMAIN xtb_options = {"md"}
  /\ point_charges
  /\ HasDirective(xcontrol, "write", "json", "true")

AllFloats(seq) == \A i \in 1..Len(seq) : IsFloat(seq[i])
IsSquare(n) == \E k \in 0..n : k * k = n
Root(n) == CHOOSE k \in 0..n : k * k = n
Parsed36 == hresult.kind = "results" /\ hresult.side = 6

\* C4 (as claimed): a hessian file of exactly n floats gives a matrix of side
\* sqrt(n) when n is a perfect square and fails otherwise.
C4_AllTokens ==
  (hresult # NotRun /\ hlog = "energy" /\ AllFloats(tokens)) =>
    IF IsSquare(Len(tokens))
      THEN hresult.kind = "results" /\ hresult.side = Root(Len(tokens))
      ELSE hresult.kind = "raised"

\* C4 (amended): parse_hessian drops the first token (the $hessian line); with
\* n floats after it and an energy in the log, it gives the n values row by row
\* as a matrix of side sqrt(n) when n is a perfect square and fails otherwise:
\* the header and 36 floats give 6x6, the header and 35 floats fail, and so
\* does a file of 36 floats alone.
C4_AfterHeader ==
  LET rest == IF tokens = << >> THEN << >> ELSE SubSeq(tokens, 2, Len(tokens))
      n == Len(rest)
  IN (hresult # NotRun /\ hlog = "energy" /\ AllFloats(rest)) =>
       /\ IsSquare(n) =>
            /\ hresult.kind = "results"
            /\ hresult.side = Root(n)
            /\ \A r, c \in 1..Root(n) :
                 hresult.hessian[r][c] = rest[(r - 1) * Root(n) + c].f
       /\ ~IsSquare(n) => hresult.kind = "raised"
       /\ n = 36 => Parsed36
       /\ (Len(tokens) = 36 /\ AllFloats(tokens)) => hresult.kind = "raised"

\* C4 witness: the $hessian line and 36 floats were parsed to a 6x6 matrix.
C4_Witness ==
  /\ Len(tokens) = 37
  /\ tokens[1] = Word("$hessian")
  /\ Parsed36
  /\ hresult.hessian[6][6] = 37

\* C10: the topology is replaced twice at one value of topo_used, or an
\* increment of topo_used is lost, only if two operations overlapped.
C10_RaceNeedsOverlap == (double \/ incs > topo_used) => overlapped

\* C10 witness: two overlapping passes rebuilt at the same value of topo_used
\* and an increment was lost.
C10_Witness ==
  /\ overlapped
  /\ double
  /\ incs > topo_used
  /\ \A t \in DOMAIN th : Resting(t)
====
